---- MODULE Spec2Model ----
(***************************************************************************)
(* A model of hello_reflex.py: the Document tag normaliser, the PDF text   *)
(* extraction cascade, the tag suggester and the AppState event handlers.  *)
(*                                                                         *)
(* Python strings are sequences of code points (naturals), so that         *)
(* sorted(), str.lower(), str.strip(), str.split() and the regular         *)
(* expressions act on what they act on in the program.                     *)
(*                                                                         *)
(* Four specifications share the variables; each leaves the variables of   *)
(* the other three components at their idle value:                         *)
(*   SpecTags     Document.normalize_tags and Document.tags                *)
(*   SpecExtract  extract_text_from_pdf                                    *)
(*   SpecSuggest  suggest_tags_from_text                                   *)
(*   SpecApp      AppState handlers over the Document table                *)
(***************************************************************************)
EXTENDS Integers, Sequences, FiniteSets, TLC

VARIABLES
    \* ---- SpecTags
    tpc,            \* position in normalize -> read back -> normalize again
    rawTags,        \* the List[str] given to normalize_tags
    csv,            \* normalize_tags(rawTags)
    parsed,         \* Document.tags of a row whose tags_str is csv
    csv2,           \* normalize_tags(parsed)
    \* ---- SpecExtract
    epc,            \* position in extract_text_from_pdf
    nPages,         \* pages of the uploaded document
    envOCR,         \* os.getenv("ENABLE_OCR", "0")
    text,           \* the local `text`: the best text so far, returned at the end
    cand,           \* per backend: the normalised output it produced, if any
    attempted,      \* backends whose try block was entered
    ocrStarted,     \* convert_from_path was called
    attempt,        \* what the libraries did in the latest backend attempt
    raised,         \* an exception left extract_text_from_pdf
    \* ---- SpecSuggest
    spc,            \* position: before or after the call
    sText,          \* the argument text
    sK,             \* the argument k
    sPath,          \* which ranking produced raw: "empty", "tfidf" or "count"
    sExc,           \* the exception that sent the call to the Counter fallback
    sOut,           \* the list returned
    \* ---- SpecApp
    docs,           \* the Document table: id -> row
    inserted,       \* rows inserted so far (the uploads, in time order)
    idPolicy,       \* how the database numbers a new row
    disk,           \* the files under assets/docs, by filepath
    edit_id,        \* AppState.edit_id
    edit_tags_input,\* AppState.edit_tags_input
    editPath        \* history: the filepath of the row start_edit_id opened

tagVars == <<tpc, rawTags, csv, parsed, csv2>>

exVars == <<epc, nPages, envOCR, text, cand, attempted, ocrStarted, attempt, raised>>

sgVars == <<spc, sText, sK, sPath, sExc, sOut>>

appVars == <<docs, inserted, idPolicy, disk, edit_id, edit_tags_input, editPath>>

vars == <<tagVars, exVars, sgVars, appVars>>

-----------------------------------------------------------------------------
(* Bounds of the model *)

\* size of a raw tag list: one per tag plus one per character
MaxInputSize == 6

\* pages of a document
MaxPages == 2

\* words of a text given to suggest_tags_from_text
MaxWords == 3

\* the argument k of suggest_tags_from_text
MaxK == 2

\* rows ever inserted into the Document table
MaxUploads == 3

\* files of one upload
MaxFiles == 2

-----------------------------------------------------------------------------
(* Code points and the str methods the program uses *)

\* " "  ","  "B"  "a"  "b"
TagAlphabet == {32, 44, 66, 97, 98}

\* str.isspace() of one character (the ASCII and Latin-1 white space)
IsSpace(c) ==
    c = 32 \/ (c >= 9 /\ c <= 13) \/ (c >= 28 /\ c <= 31) \/ c = 133 \/ c = 160

\* str.lower() of one character (ASCII letters)
LowerChar(c) == IF c \in 65..90 THEN c + 32 ELSE c

lower(s) == [i \in DOMAIN s |-> LowerChar(s[i])]

RECURSIVE lstrip(_)
lstrip(s) == IF s # <<>> /\ IsSpace(Head(s)) THEN lstrip(Tail(s)) ELSE s

RECURSIVE rstrip(_)
rstrip(s) ==
    IF s # <<>> /\ IsSpace(s[Len(s)]) THEN rstrip(SubSeq(s, 1, Len(s) - 1)) ELSE s

\* str.strip()
strip(s) == rstrip(lstrip(s))

\* str.split(sep) for a one-character separator: "".split(",") is [""]
RECURSIVE split(_, _)
split(s, sep) ==
    IF \E i \in DOMAIN s : s[i] = sep
    THEN LET i == CHOOSE k \in DOMAIN s :
                      s[k] = sep /\ \A j \in 1..(k - 1) : s[j] # sep
         IN  <<SubSeq(s, 1, i - 1)>> \o split(SubSeq(s, i + 1, Len(s)), sep)
    ELSE <<s>>

\* sep.join(parts)
RECURSIVE join(_, _)
join(parts, sep) ==
    IF parts = <<>> THEN <<>>
    ELSE IF Len(parts) = 1 THEN parts[1]
    ELSE parts[1] \o sep \o join(Tail(parts), sep)

\* s < t for Python strings: lexicographic on code points
RECURSIVE StrLess(_, _)
StrLess(s, t) ==
    IF t = <<>> THEN FALSE
    ELSE IF s = <<>> THEN TRUE
    ELSE IF s[1] # t[1] THEN s[1] < t[1]
    ELSE StrLess(Tail(s), Tail(t))

\* sorted(S) of a set of strings
RECURSIVE sorted(_)
sorted(S) ==
    IF S = {} THEN <<>>
    ELSE LET m == CHOOSE x \in S : \A y \in S \ {x} : StrLess(x, y)
         IN  <<m>> \o sorted(S \ {m})

-----------------------------------------------------------------------------
(* Document.normalize_tags and Document.tags *)

\* a plausible slip: the kept tag is lower-cased but not stripped
clean_tags_unstripped(tags) ==
    sorted({lower(tags[i]) :
                i \in {j \in DOMAIN tags : tags[j] # <<>> /\ strip(tags[j]) # <<>>}})

\* a plausible slip: the kept tag is stripped but not lower-cased
clean_tags_cased(tags) ==
    sorted({strip(tags[i]) :
                i \in {j \in DOMAIN tags : tags[j] # <<>> /\ strip(tags[j]) # <<>>}})

\* clean = sorted({t.strip().lower() for t in tags if t and t.strip()})
clean_tags(tags) ==
    sorted({lower(strip(tags[i])) :
                i \in {j \in DOMAIN tags : tags[j] # <<>> /\ strip(tags[j]) # <<>>}})

\* return ",".join(clean)
normalize_tags(tags) == join(clean_tags(tags), <<44>>)

\* [x for x in xs if x]
RECURSIVE NonEmpty(_)
NonEmpty(xs) ==
    IF xs = <<>> THEN <<>>
    ELSE (IF Head(xs) # <<>> THEN <<Head(xs)>> ELSE <<>>) \o NonEmpty(Tail(xs))

\* the tags property of a row whose tags_str is tags_str
tags_of(tags_str) ==
    IF tags_str = <<>> THEN <<>>
    ELSE LET parts == split(tags_str, 44)
         IN  NonEmpty([i \in DOMAIN parts |-> strip(parts[i])])

-----------------------------------------------------------------------------
(* SpecTags: normalize_tags on every raw tag list within the bound, *)
(* the stored string read back, and the list read back normalised again *)

RECURSIVE StrsOfLen(_)
StrsOfLen(n) ==
    IF n = 0 THEN {<<>>}
    ELSE {<<c>> \o s : c \in TagAlphabet, s \in StrsOfLen(n - 1)}

RECURSIVE ListsOfSize(_)
ListsOfSize(n) ==
    IF n = 0 THEN {<<>>}
    ELSE UNION {{<<s>> \o l : s \in StrsOfLen(k), l \in ListsOfSize(n - 1 - k)} :
                    k \in 0..(n - 1)}

\* the raw tag lists of size at most max
TagLists(max) == UNION {ListsOfSize(n) : n \in 0..max}

TagsIdle ==
    /\ tpc = "idle"
    /\ rawTags = <<>>
    /\ csv = <<>>
    /\ parsed = <<>>
    /\ csv2 = <<>>

TagsInit ==
    /\ tpc = "start"
    /\ rawTags \in TagLists(MaxInputSize)
    /\ csv = <<>>
    /\ parsed = <<>>
    /\ csv2 = <<>>

Normalize ==
    /\ tpc = "start"
    /\ csv' = normalize_tags(rawTags)
    /\ tpc' = "stored"
    /\ UNCHANGED <<rawTags, parsed, csv2>>
    /\ UNCHANGED <<exVars, sgVars, appVars>>

ReadBack ==
    /\ tpc = "stored"
    /\ parsed' = tags_of(csv)
    /\ tpc' = "read"
    /\ UNCHANGED <<rawTags, csv, csv2>>
    /\ UNCHANGED <<exVars, sgVars, appVars>>

Renormalize ==
    /\ tpc = "read"
    /\ csv2' = normalize_tags(parsed)
    /\ tpc' = "done"
    /\ UNCHANGED <<rawTags, csv, parsed>>
    /\ UNCHANGED <<exVars, sgVars, appVars>>

-----------------------------------------------------------------------------
(* extract_text_from_pdf *)

\* len(text) below which the next backend is tried
MinUsableLen == 40

Backends == <<"native", "alt", "ocr">>

\* the exceptions the libraries raise; every one is a subclass of Exception
LibraryErrors == {"PdfReadError", "ImportError"}

\* a narrower handler: `except ImportError:` where the code has `except Exception:`
CaughtImportOnly(exc) == exc = "ImportError"

\* `except Exception:` (lines 64, 79, 91)
Caught(exc) == exc \in LibraryErrors

\* s.replace("\x00", " ")
replace_nul(s) == [i \in DOMAIN s |-> IF s[i] = 0 THEN 32 ELSE s[i]]

\* re.sub(r"\s+", " ", s): the first character of every white-space run becomes
\* a space and the rest of the run is dropped
StartsRunOrText(p) == ~(p[2] /\ p[3])
collapse_ws(s) ==
    LET marked == [i \in DOMAIN s |->
                      <<s[i], IsSpace(s[i]), i > 1 /\ IsSpace(s[IF i > 1 THEN i - 1 ELSE 1])>>]
        kept == SelectSeq(marked, StartsRunOrText)
    IN  [i \in DOMAIN kept |-> IF kept[i][2] THEN 32 ELSE kept[i][1]]

\* _clean (lines 48-51)
_clean(s) == strip(collapse_ws(replace_nul(s)))

\* `not text or len(text) < 40`
TooShort(t) == t = <<>> \/ Len(t) < MinUsableLen

\* a later backend's output also wins a tie
LongerOrEqual(new, old) == Len(new) >= Len(old)

\* `len(alt) > len(text)`, `len(text_ocr) > len(text)`
Longer(new, old) == Len(new) > Len(old)

\* the OCR block is entered whatever ENABLE_OCR says
OcrGateNoFlag(t, env) == TooShort(t)

\* line 82: (not text or len(text) < 40) and os.getenv("ENABLE_OCR", "0") in {...}
OcrGate(t, env) == TooShort(t) /\ env \in {"1", "true", "TRUE"}

\* the page loops of lines 58-62 and 71-75: a page that raises, or gives None,
\* contributes ""
parts_of(pages) ==
    [i \in DOMAIN pages |-> IF pages[i].k = "text" THEN pages[i].t ELSE <<>>]

NoOutput == [out |-> FALSE, t |-> <<>>]
Output(t) == [out |-> TRUE, t |-> t]

\* lines 55-65: what the native attempt leaves, given what PyPDF2 did
\* (o.fail = "open": PdfReader(...) or reader.pages raised o.exc)
native_attempt(o) ==
    IF o.fail # "none"
    THEN IF Caught(o.exc) THEN [raised |-> FALSE, cand |-> NoOutput]
         ELSE [raised |-> TRUE, cand |-> NoOutput]
    ELSE [raised |-> FALSE, cand |-> Output(_clean(join(parts_of(o.pages), <<32>>)))]

\* lines 68-80: what the pdfplumber attempt leaves (o.fail = "open": open() raised;
\* o.fail = "close": leaving the with block raised, before alt is computed)
alt_attempt(o) ==
    IF o.fail # "none"
    THEN IF Caught(o.exc) THEN [raised |-> FALSE, cand |-> NoOutput]
         ELSE [raised |-> TRUE, cand |-> NoOutput]
    ELSE [raised |-> FALSE, cand |-> Output(_clean(join(parts_of(o.pages), <<32>>)))]

\* lines 83-92: what the OCR attempt leaves (o.fail = "import": an import raised;
\* "open": convert_from_path raised). The list comprehension of line 87 has no
\* handler of its own: a page that raises ends the whole attempt.
ocr_attempt(o) ==
    LET exc == IF o.fail # "none" THEN o.exc
               ELSE IF \E i \in DOMAIN o.pages : o.pages[i].k = "raise"
                    THEN "PdfReadError"
                    ELSE "none"
    IN  IF exc # "none"
        THEN IF Caught(exc) THEN [raised |-> FALSE, cand |-> NoOutput]
             ELSE [raised |-> TRUE, cand |-> NoOutput]
        ELSE [raised |-> FALSE,
              cand |-> Output(_clean(join(parts_of(o.pages), <<32>>)))]

(* What the libraries may do with a document of n pages *)

Word(c, n) == [i \in 1..n |-> c]

\* the letter of the text a backend reads: n, a, o
Letter(b) == CASE b = "native" -> 110 [] b = "alt" -> 97 [] OTHER -> 111

\* texts of one page: nothing, two words around NUL and a line break after a
\* tab, and a word one short of, and of, the usable length
PageTexts(b) ==
    {<<>>, <<9, Letter(b), 0, 10, Letter(b)>>,
     Word(Letter(b), MinUsableLen - 1), Word(Letter(b), MinUsableLen)}

PageOutcomes(b) ==
    {[k |-> "text", t |-> t] : t \in PageTexts(b)}
        \cup {[k |-> "raise", t |-> <<>>]}
        \cup (IF b = "ocr" THEN {} ELSE {[k |-> "none", t |-> <<>>]})

Outcomes(b, n) ==
    (IF b = "ocr"
     THEN {[fail |-> "import", exc |-> "ImportError", pages |-> <<>>],
           [fail |-> "open", exc |-> "PdfReadError", pages |-> <<>>]}
     ELSE {[fail |-> "open", exc |-> "PdfReadError", pages |-> <<>>]})
    \cup {[fail |-> "none", exc |-> "none", pages |-> ps] :
            ps \in [1..n -> PageOutcomes(b)]}
    \cup (IF b = "alt"
          THEN {[fail |-> "close", exc |-> "PdfReadError", pages |-> ps] :
                    ps \in [1..n -> PageOutcomes(b)]}
          ELSE {})

NoAttempt ==
    [backend |-> "none", fail |-> "none", pageFailed |-> FALSE, okText |-> <<>>]

\* the record of an attempt: where it failed as a whole, whether a page raised,
\* and the normalised text of the pages that did not raise, in page order
Attempt(b, o) ==
    [backend |-> b,
     fail |-> o.fail,
     pageFailed |-> \E i \in DOMAIN o.pages : o.pages[i].k = "raise",
     okText |-> _clean(join([i \in DOMAIN o.pages |-> o.pages[i].t], <<32>>))]

\* every attempt the bounds allow, worked out once: what the code leaves (res)
\* and the record of the attempt (att)
Tried ==
    [b \in {"native", "alt", "ocr"} |->
        [o \in UNION {Outcomes(b, n) : n \in 0..MaxPages} |->
            [res |-> CASE b = "native" -> native_attempt(o)
                       [] b = "alt" -> alt_attempt(o)
                       [] OTHER -> ocr_attempt(o),
             att |-> Attempt(b, o)]]]

ExIdle ==
    /\ epc = "idle"
    /\ nPages = 0
    /\ envOCR = "0"
    /\ text = <<>>
    /\ cand = [b \in {"native", "alt", "ocr"} |-> NoOutput]
    /\ attempted = {}
    /\ ocrStarted = FALSE
    /\ attempt = NoAttempt
    /\ raised = FALSE

\* the call: text = ""
ExInit ==
    /\ epc = "native"
    /\ nPages \in 0..MaxPages
    /\ envOCR \in {"0", "1", "true", "TRUE", "True"}
    /\ text = <<>>
    /\ cand = [b \in {"native", "alt", "ocr"} |-> NoOutput]
    /\ attempted = {}
    /\ ocrStarted = FALSE
    /\ attempt = NoAttempt
    /\ raised = FALSE

\* lines 55-65
NativeStep ==
    /\ epc = "native"
    /\ \E o \in Outcomes("native", nPages) :
        LET r == Tried["native"][o].res
        IN  /\ attempt' = Tried["native"][o].att
            /\ cand' = [cand EXCEPT !["native"] = r.cand]
            /\ raised' = r.raised
            /\ text' = IF r.cand.out THEN r.cand.t ELSE <<>>
            /\ epc' = IF r.raised THEN "done" ELSE "alt"
    /\ attempted' = attempted \cup {"native"}
    /\ UNCHANGED <<nPages, envOCR, ocrStarted>>
    /\ UNCHANGED <<tagVars, sgVars, appVars>>

\* lines 67-80, the condition of line 67 true
AltStep ==
    /\ epc = "alt"
    /\ TooShort(text)
    /\ \E o \in Outcomes("alt", nPages) :
        LET r == Tried["alt"][o].res
        IN  /\ attempt' = Tried["alt"][o].att
            /\ cand' = [cand EXCEPT !["alt"] = r.cand]
            /\ raised' = r.raised
            /\ text' = IF r.cand.out /\ Longer(r.cand.t, text) THEN r.cand.t ELSE text
            /\ epc' = IF r.raised THEN "done" ELSE "ocr"
    /\ attempted' = attempted \cup {"alt"}
    /\ UNCHANGED <<nPages, envOCR, ocrStarted>>
    /\ UNCHANGED <<tagVars, sgVars, appVars>>

\* line 67 false
AltSkip ==
    /\ epc = "alt"
    /\ ~TooShort(text)
    /\ epc' = "ocr"
    /\ UNCHANGED <<nPages, envOCR, text, cand, attempted, ocrStarted, attempt, raised>>
    /\ UNCHANGED <<tagVars, sgVars, appVars>>

\* lines 82-93, the condition of line 82 true; then return text
OcrStep ==
    /\ epc = "ocr"
    /\ OcrGate(text, envOCR)
    /\ \E o \in Outcomes("ocr", nPages) :
        LET r == Tried["ocr"][o].res
        IN  /\ attempt' = Tried["ocr"][o].att
            /\ cand' = [cand EXCEPT !["ocr"] = r.cand]
            /\ raised' = r.raised
            /\ text' = IF r.cand.out /\ Longer(r.cand.t, text) THEN r.cand.t ELSE text
            /\ ocrStarted' = (o.fail # "import")
    /\ attempted' = attempted \cup {"ocr"}
    /\ epc' = "done"
    /\ UNCHANGED <<nPages, envOCR>>
    /\ UNCHANGED <<tagVars, sgVars, appVars>>

\* line 82 false; then return text
OcrSkip ==
    /\ epc = "ocr"
    /\ ~OcrGate(text, envOCR)
    /\ epc' = "done"
    /\ UNCHANGED <<nPages, envOCR, text, cand, attempted, ocrStarted, attempt, raised>>
    /\ UNCHANGED <<tagVars, sgVars, appVars>>

-----------------------------------------------------------------------------
(* suggest_tags_from_text *)

STOPWORDS == {
    <<101, 108>>,  \* el
    <<108, 97>>,  \* la
    <<108, 111, 115>>,  \* los
    <<108, 97, 115>>,  \* las
    <<117, 110>>,  \* un
    <<117, 110, 97>>,  \* una
    <<117, 110, 111, 115>>,  \* unos
    <<117, 110, 97, 115>>,  \* unas
    <<100, 101>>,  \* de
    <<100, 101, 108>>,  \* del
    <<97, 108>>,  \* al
    <<97>>,  \* a
    <<121>>,  \* y
    <<111>>,  \* o
    <<117>>,  \* u
    <<113, 117, 101>>,  \* que
    <<101, 110>>,  \* en
    <<115, 101>>,  \* se
    <<112, 97, 114, 97>>,  \* para
    <<112, 111, 114>>,  \* por
    <<99, 111, 110>>,  \* con
    <<115, 105, 110>>,  \* sin
    <<99, 111, 109, 111>>,  \* como
    <<101, 115>>,  \* es
    <<115, 111, 110>>,  \* son
    <<115, 101, 114>>,  \* ser
    <<102, 117, 101>>,  \* fue
    <<101, 114, 97>>,  \* era
    <<104, 97, 110>>,  \* han
    <<104, 97>>,  \* ha
    <<104, 97, 121>>,  \* hay
    <<109, 225, 115>>,  \* m\xe1s
    <<109, 101, 110, 111, 115>>,  \* menos
    <<121, 97>>,  \* ya
    <<110, 111>>,  \* no
    <<115, 237>>,  \* s\xed
    <<108, 111>>,  \* lo
    <<108, 101>>,  \* le
    <<108, 101, 115>>,  \* les
    <<101, 115, 116, 111>>,  \* esto
    <<101, 115, 116, 97>>,  \* esta
    <<101, 115, 116, 101>>,  \* este
    <<101, 115, 116, 97, 115>>,  \* estas
    <<101, 115, 116, 111, 115>>,  \* estos
    <<101, 115, 111>>,  \* eso
    <<101, 115, 97>>,  \* esa
    <<101, 115, 101>>,  \* ese
    <<101, 115, 111, 115>>,  \* esos
    <<101, 115, 97, 115>>,  \* esas
    <<109, 117, 121>>,  \* muy
    <<116, 97, 109, 98, 105, 233, 110>>,  \* tambi\xe9n
    <<101, 110, 116, 114, 101>>,  \* entre
    <<115, 111, 98, 114, 101>>,  \* sobre
    <<104, 97, 115, 116, 97>>,  \* hasta
    <<100, 101, 115, 100, 101>>,  \* desde
    <<99, 117, 97, 110, 100, 111>>,  \* cuando
    <<113, 117, 233>>,  \* qu\xe9
    <<99, 117, 225, 108>>,  \* cu\xe1l
    <<99, 117, 97, 108>>,  \* cual
    <<100, 111, 110, 100, 101>>,  \* donde
    <<112, 111, 114, 113, 117, 101>>,  \* porque
    <<97, 110, 116, 101>>,  \* ante
    <<98, 97, 106, 111>>,  \* bajo
    <<99, 97, 98, 101>>,  \* cabe
    <<99, 111, 110, 116, 114, 97>>,  \* contra
    <<104, 97, 99, 105, 97>>,  \* hacia
    <<115, 101, 103, 250, 110>>,  \* seg\xfan
    <<109, 101, 100, 105, 97, 110, 116, 101>>,  \* mediante
    <<100, 111, 99, 117, 109, 101, 110, 116, 111>>,  \* documento
    <<112, 100, 102>>,  \* pdf
    <<97, 114, 99, 104, 105, 118, 111>>,  \* archivo
    <<97, 114, 99, 104, 105, 118, 111, 115>>,  \* archivos
    <<99, 97, 112, 105, 116, 111, 108, 105, 111>>  \* capitolio
}

\* string.punctuation + the nine extra marks of line 99
IsPunct(c) ==
    \/ (c >= 33 /\ c <= 47) \/ (c >= 58 /\ c <= 64)
    \/ (c >= 91 /\ c <= 96) \/ (c >= 123 /\ c <= 126)
    \/ c \in {161, 168, 180, 191, 8216, 8217, 8220, 8221}

\* t.translate(str.maketrans({c: " " for c in ...}))
translate_punct(s) == [i \in DOMAIN s |-> IF IsPunct(s[i]) THEN 32 ELSE s[i]]

\* str.split() with no argument: the runs of non-white-space
RECURSIVE split_ws(_)
split_ws(s) ==
    LET t == lstrip(s)
    IN  IF t = <<>> THEN <<>>
        ELSE IF \E i \in DOMAIN t : IsSpace(t[i])
        THEN LET i == CHOOSE k \in DOMAIN t :
                        IsSpace(t[k]) /\ \A j \in 1..(k - 1) : ~IsSpace(t[j])
             IN  <<SubSeq(t, 1, i - 1)>> \o split_ws(SubSeq(t, i + 1, Len(t)))
        ELSE <<t>>

\* str.isdigit()
isdigit(w) == w # <<>> /\ \A i \in DOMAIN w : w[i] >= 48 /\ w[i] <= 57

\* len(w) > 2 and w not in STOPWORDS and not w.isdigit()
TokenKept(w) == Len(w) > 2 /\ w \notin STOPWORDS /\ ~isdigit(w)

\* lines 98-100
filter_tokens(txt) == SelectSeq(split_ws(translate_punct(lower(txt))), TokenKept)

\* \w of a Unicode pattern: letters, digits and the underscore
IsWordChar(c) ==
    \/ (c >= 48 /\ c <= 57) \/ (c >= 65 /\ c <= 90) \/ (c >= 97 /\ c <= 122)
    \/ c = 95 \/ c \in {170, 181, 186}
    \/ (c >= 192 /\ c <= 255 /\ c # 215 /\ c # 247)

\* the maximal runs of word characters of s
RECURSIVE word_runs(_)
word_runs(s) ==
    IF s = <<>> THEN <<>>
    ELSE IF ~IsWordChar(Head(s)) THEN word_runs(Tail(s))
    ELSE IF \E i \in DOMAIN s : ~IsWordChar(s[i])
    THEN LET i == CHOOSE k \in DOMAIN s :
                    ~IsWordChar(s[k]) /\ \A j \in 1..(k - 1) : IsWordChar(s[j])
         IN  <<SubSeq(s, 1, i - 1)>> \o word_runs(SubSeq(s, i + 1, Len(s)))
    ELSE <<s>>

\* token_pattern (?u)\b\w\w+\b, then stop_words=list(STOPWORDS)
TermKept(w) == Len(w) >= 2 /\ w \notin STOPWORDS

\* the analyzer of TfidfVectorizer(stop_words=list(STOPWORDS)): lower-case,
\* the runs of two or more word characters, stop words removed
analyzer(doc) == SelectSeq(word_runs(lower(doc)), TermKept)

Range(f) == {f[i] : i \in DOMAIN f}

Count(f, x) == Cardinality({i \in DOMAIN f : f[i] = x})

\* max_features of line 105
MaxFeatures == 800

\* max_features: with more terms than that, the most frequent are kept
limit_features(terms) ==
    IF Cardinality(Range(terms)) <= MaxFeatures THEN Range(terms)
    ELSE CHOOSE S \in SUBSET Range(terms) :
            /\ Cardinality(S) = MaxFeatures
            /\ \A x \in S, y \in Range(terms) \ S : Count(terms, x) >= Count(terms, y)

\* the terms the vectorizer finds in " ".join(tokens) (line 106)
tfidf_terms(tokens) == analyzer(join(tokens, <<32>>))

\* scores.argsort()[::-1] as feature names: the features by descending score.
\* With one document the idf is 1 and the score of a feature is its count over
\* the norm of the counts; argsort leaves the order of equal scores open.
RECURSIVE DescOrders(_, _)
DescOrders(S, terms) ==
    IF S = {} THEN {<<>>}
    ELSE LET top == {x \in S : \A y \in S : Count(terms, x) >= Count(terms, y)}
         IN  UNION {{<<x>> \o r : r \in DescOrders(S \ {x}, terms)} : x \in top}

\* xs[:n]
Take(xs, n) == SubSeq(xs, 1, IF n < Len(xs) THEN n ELSE Len(xs))

\* the keys of Counter(tokens), in the order first met
RECURSIVE first_seen(_, _)
first_seen(tokens, seen) ==
    IF tokens = <<>> THEN seen
    ELSE first_seen(Tail(tokens),
                    IF Head(tokens) \in Range(seen) THEN seen
                    ELSE Append(seen, Head(tokens)))

\* sorted(keys, key=count, reverse=True): stable, equal counts stay as first met
RECURSIVE by_count(_, _)
by_count(keys, tokens) ==
    IF keys = <<>> THEN <<>>
    ELSE LET i == CHOOSE k \in DOMAIN keys :
                    /\ \A j \in DOMAIN keys : Count(tokens, keys[k]) >= Count(tokens, keys[j])
                    /\ \A j \in 1..(k - 1) : Count(tokens, keys[j]) < Count(tokens, keys[k])
         IN  <<keys[i]>>
                \o by_count(SubSeq(keys, 1, i - 1) \o SubSeq(keys, i + 1, Len(keys)), tokens)

\* [w for w, _ in Counter(tokens).most_common(n)]
most_common(tokens, n) == Take(by_count(first_seen(tokens, <<>>), tokens), n)

\* re.search(r"[a-záéíóúñ]", w)
HasAlpha(w) ==
    \E i \in DOMAIN w : (w[i] >= 97 /\ w[i] <= 122) \/ w[i] \in {225, 233, 237, 243, 250, 241}

\* a plausible slip: the loop of lines 115-120 without its break
RECURSIVE select_tags_nobreak(_, _, _)
select_tags_nobreak(raw, out, k) ==
    IF raw = <<>> THEN out
    ELSE LET w == lower(strip(Head(raw)))
             out2 == IF w # <<>> /\ w \notin Range(out) /\ HasAlpha(w)
                     THEN Append(out, w) ELSE out
         IN  select_tags_nobreak(Tail(raw), out2, k)

\* lines 114-121: the loop over raw, from out so far
RECURSIVE select_tags(_, _, _)
select_tags(raw, out, k) ==
    IF raw = <<>> THEN out
    ELSE LET w == lower(strip(Head(raw)))
             out2 == IF w # <<>> /\ w \notin Range(out) /\ HasAlpha(w)
                     THEN Append(out, w) ELSE out
         IN  IF Len(out2) >= k THEN out2 ELSE select_tags(Tail(raw), out2, k)

\* lines 96-102: the tokens, none when the text is empty
tokens_of(txt) == IF txt = <<>> THEN <<>> ELSE filter_tokens(txt)

\* lines 104-110 and 114-121: the lists the TF-IDF ranking can give
tfidf_results(tokens, k) ==
    LET terms == tfidf_terms(tokens)
    IN  {select_tags(Take(order, 2 * k), <<>>, k) :
            order \in DescOrders(limit_features(terms), terms)}

\* lines 112-121: the list the Counter ranking gives
count_result(tokens, k) == select_tags(most_common(tokens, 2 * k), <<>>, k)

(* The texts: words of a small vocabulary, joined by a separator each *)

\* "iva"  "IVA."  "rfc"  "pdf"  "mx"  "2025"
Atoms ==
    {<<105, 118, 97>>, <<73, 86, 65, 46>>, <<114, 102, 99>>, <<112, 100, 102>>,
     <<109, 120>>, <<50, 48, 50, 53>>}

\* a space, an en dash
Separators == {<<32>>, <<8211>>}

RECURSIVE TextsOfWords(_)
TextsOfWords(m) ==
    IF m = 0 THEN {<<>>}
    ELSE IF m = 1 THEN Atoms
    ELSE {a \o sep \o t : a \in Atoms, sep \in Separators, t \in TextsOfWords(m - 1)}

Texts(max) == UNION {TextsOfWords(m) : m \in 0..max}

SgIdle ==
    /\ spc = "idle"
    /\ sText = <<>>
    /\ sK = 0
    /\ sPath = "none"
    /\ sExc = "none"
    /\ sOut = <<>>

SgInit ==
    /\ spc = "call"
    /\ sText \in Texts(MaxWords)
    /\ sK = 0
    /\ sPath = "none"
    /\ sExc = "none"
    /\ sOut = <<>>

\* lines 96-97 and 101-102: no text, or no token left
SuggestNothing ==
    /\ spc = "call"
    /\ tokens_of(sText) = <<>>
    /\ \E k \in 0..MaxK : sK' = k
    /\ sPath' = "empty"
    /\ sOut' = <<>>
    /\ spc' = "done"
    /\ UNCHANGED <<sText, sExc>>
    /\ UNCHANGED <<tagVars, exVars, appVars>>

\* lines 103-110, 114-121: sklearn is there and finds a vocabulary
SuggestTfidf ==
    /\ spc = "call"
    /\ LET tokens == tokens_of(sText)
       IN  /\ tokens # <<>>
           /\ tfidf_terms(tokens) # <<>>
           /\ \E k \in 0..MaxK :
                /\ sK' = k
                /\ sOut' \in tfidf_results(tokens, k)
    /\ sPath' = "tfidf"
    /\ spc' = "done"
    /\ UNCHANGED <<sText, sExc>>
    /\ UNCHANGED <<tagVars, exVars, appVars>>

\* lines 111-121: the import fails, or fit_transform raises ValueError on an
\* empty vocabulary
SuggestByCount ==
    /\ spc = "call"
    /\ LET tokens == tokens_of(sText)
       IN  /\ tokens # <<>>
           /\ \E exc \in {"ImportError"} \cup
                         (IF tfidf_terms(tokens) = <<>> THEN {"ValueError"} ELSE {}) :
                sExc' = exc
           /\ \E k \in 0..MaxK :
                /\ sK' = k
                /\ sOut' = count_result(tokens, k)
    /\ sPath' = "count"
    /\ spc' = "done"
    /\ UNCHANGED <<sText>>
    /\ UNCHANGED <<tagVars, exVars, appVars>>

-----------------------------------------------------------------------------
(* AppState and the Document table *)

\* edit_id: Optional[int] = None; the ids of rows start at 1
NoId == 0

\* suggest_tags_from_text(text, k=6) in handle_upload
UploadK == 6

\* snippet = (text or "")[:800]
SnippetLen == 800

FileNames == {"a.pdf", "b.pdf"}

\* what extract_text_from_pdf returned for an uploaded file: "", "rfc IVA."
DocTexts == {<<>>, <<114, 102, 99, 32, 73, 86, 65, 46>>}

\* what the user types into the tag editor: "", "x", "b, A"
TagInputs == {<<>>, <<120>>, <<98, 44, 32, 65>>}

\* every list suggest_tags_from_text(text, k) can return
suggest_results(txt, k) ==
    LET tokens == tokens_of(txt)
    IN  IF tokens = <<>> THEN {<<>>}
        ELSE {count_result(tokens, k)}
                \cup (IF tfidf_terms(tokens) = <<>> THEN {} ELSE tfidf_results(tokens, k))

\* the uploads a user can make: a file name, the text extracted from the file
\* and the tags suggested for it
UploadChoices ==
    {[name |-> n, text |-> t, suggested |-> sg] :
        n \in FileNames, t \in DocTexts, sg \in UNION {suggest_results(x, UploadK) : x \in DocTexts}}

Uploads ==
    {u \in UploadChoices : u.suggested \in suggest_results(u.text, UploadK)}

Batches == UNION {[1..n -> Uploads] : n \in 0..MaxFiles}

MaxOf(S) == IF S = {} THEN 0 ELSE CHOOSE x \in S : \A y \in S : x >= y

\* id: int | None = Field(default=None, primary_key=True): the database gives
\* the id. An INTEGER PRIMARY KEY of SQLite is one more than the greatest id in
\* the table; a serial column numbers the rows ever inserted.
NewId(table, n) == IF idPolicy = "rowid" THEN MaxOf(DOMAIN table) + 1 ELSE n + 1

\* lines 192-211: the row of one uploaded file, the n-th row inserted
NewRow(u, n) ==
    [filename |-> u.name,
     filepath |-> <<n, u.name>>,
     text_snippet |-> Take(u.text, SnippetLen),
     tags_str |-> normalize_tags(u.suggested),
     uploaded_at |-> n]

\* s.add(row); s.commit() for a new row
Insert(table, id, row) == [i \in DOMAIN table \cup {id} |-> IF i = id THEN row ELSE table[i]]

\* s.delete(row); s.commit()
Delete(table, id) == [i \in DOMAIN table \ {id} |-> table[i]]

\* the loop of lines 191-211 over the files
RECURSIVE insert_all(_, _, _)
insert_all(table, n, batch) ==
    IF batch = <<>> THEN table
    ELSE insert_all(Insert(table, NewId(table, n), NewRow(Head(batch), n + 1)),
                    n + 1, Tail(batch))

RECURSIVE write_all(_, _, _)
write_all(files, n, batch) ==
    IF batch = <<>> THEN files
    ELSE write_all(files \cup {<<n + 1, Head(batch).name>>}, n + 1, Tail(batch))

AppIdle ==
    /\ docs = <<>>
    /\ inserted = 0
    /\ idPolicy = "none"
    /\ disk = {}
    /\ edit_id = NoId
    /\ edit_tags_input = <<>>
    /\ editPath = <<>>

AppInit ==
    /\ docs = <<>>
    /\ inserted = 0
    /\ idPolicy \in {"rowid", "serial"}
    /\ disk = {}
    /\ edit_id = NoId
    /\ edit_tags_input = <<>>
    /\ editPath = <<>>

\* lines 183-220
handle_upload ==
    /\ \E batch \in Batches :
        /\ inserted + Len(batch) <= MaxUploads
        /\ docs' = insert_all(docs, inserted, batch)
        /\ disk' = write_all(disk, inserted, batch)
        /\ inserted' = inserted + Len(batch)
    /\ UNCHANGED <<idPolicy, edit_id, edit_tags_input, editPath>>
    /\ UNCHANGED <<tagVars, exVars, sgVars>>

\* line 132
set_edit_tags_input ==
    /\ \E v \in TagInputs : edit_tags_input' = v
    /\ UNCHANGED <<docs, inserted, idPolicy, disk, edit_id, editPath>>
    /\ UNCHANGED <<tagVars, exVars, sgVars>>

\* lines 223-229
start_edit_id ==
    /\ \E doc_id \in 1..MaxUploads :
        IF doc_id \in DOMAIN docs
        THEN /\ edit_id' = doc_id
             /\ edit_tags_input' = join(tags_of(docs[doc_id].tags_str), <<44, 32>>)
             /\ editPath' = docs[doc_id].filepath
        ELSE UNCHANGED <<edit_id, edit_tags_input, editPath>>
    /\ UNCHANGED <<docs, inserted, idPolicy, disk>>
    /\ UNCHANGED <<tagVars, exVars, sgVars>>

\* lines 231-233
cancel_edit ==
    /\ edit_id' = NoId
    /\ edit_tags_input' = <<>>
    /\ editPath' = <<>>
    /\ UNCHANGED <<docs, inserted, idPolicy, disk>>
    /\ UNCHANGED <<tagVars, exVars, sgVars>>

\* lines 235-245
save_tags ==
    /\ IF edit_id = NoId
       THEN UNCHANGED <<docs, edit_id, edit_tags_input, editPath>>
       ELSE /\ docs' = IF edit_id \in DOMAIN docs
                       THEN [docs EXCEPT ![edit_id].tags_str =
                                normalize_tags(split(edit_tags_input, 44))]
                       ELSE docs
            /\ edit_id' = NoId
            /\ edit_tags_input' = <<>>
            /\ editPath' = <<>>
    /\ UNCHANGED <<inserted, idPolicy, disk>>
    /\ UNCHANGED <<tagVars, exVars, sgVars>>

\* lines 247-259; unlink can fail, and the failure is passed over
delete_doc ==
    /\ \E doc_id \in 1..MaxUploads :
        IF doc_id \in DOMAIN docs
        THEN /\ docs' = Delete(docs, doc_id)
             /\ \E unlinked \in BOOLEAN :
                    disk' = IF unlinked THEN disk \ {docs[doc_id].filepath} ELSE disk
        ELSE UNCHANGED <<docs, disk>>
    /\ UNCHANGED <<inserted, idPolicy, edit_id, edit_tags_input, editPath>>
    /\ UNCHANGED <<tagVars, exVars, sgVars>>

-----------------------------------------------------------------------------
(* The specifications *)

InitTags == TagsInit /\ ExIdle /\ SgIdle /\ AppIdle

NextTags ==
    \/ Normalize
    \/ ReadBack
    \/ Renormalize

SpecTags == InitTags /\ [][NextTags]_vars

InitExtract == ExInit /\ TagsIdle /\ SgIdle /\ AppIdle

NextExtract ==
    \/ NativeStep
    \/ AltStep
    \/ AltSkip
    \/ OcrStep
    \/ OcrSkip

SpecExtract == InitExtract /\ [][NextExtract]_vars

InitSuggest == SgInit /\ TagsIdle /\ ExIdle /\ AppIdle

NextSuggest ==
    \/ SuggestNothing
    \/ SuggestTfidf
    \/ SuggestByCount

SpecSuggest == InitSuggest /\ [][NextSuggest]_vars

InitApp == AppInit /\ TagsIdle /\ ExIdle /\ SgIdle

NextApp ==
    \/ handle_upload
    \/ set_edit_tags_input
    \/ start_edit_id
    \/ cancel_edit
    \/ save_tags
    \/ delete_doc

SpecApp == InitApp /\ [][NextApp]_vars

-----------------------------------------------------------------------------
(* Claims about the tag normaliser *)

\* no tag of the list holds a comma
NoComma(tags) == \A i \in DOMAIN tags : \A j \in DOMAIN tags[i] : tags[i][j] # 44

\* the stored string read as a comma-separated list, nothing trimmed or dropped
ReadCsv(s) == IF s = <<>> THEN <<>> ELSE split(s, 44)

\* C5 as stated: for every raw tag list, normalising the list read back from
\* the stored string gives the stored string again, and when no tag holds a
\* comma the list read back is the canonical tag list.
C5_Original ==
    tpc = "done" =>
        /\ csv2 = csv
        /\ NoComma(rawTags) => parsed = clean_tags(rawTags)

\* C5 amended: for every raw tag list whose tags hold no comma, normalising the
\* list read back from the stored string gives the stored string again, and the
\* list read back is the canonical tag list.
C5_RoundTrip ==
    (tpc = "done" /\ NoComma(rawTags)) =>
        /\ csv2 = csv
        /\ parsed = clean_tags(rawTags)

\* a round trip of two tags that needed trimming, lower-casing and sorting
C5_Witness ==
    /\ tpc = "done"
    /\ NoComma(rawTags)
    /\ Len(parsed) = 2
    /\ \E i \in DOMAIN rawTags : strip(rawTags[i]) # rawTags[i]
    /\ \E i \in DOMAIN rawTags : lower(rawTags[i]) # rawTags[i]
    /\ Len(rawTags) = 2 /\ StrLess(strip(lower(rawTags[2])), strip(lower(rawTags[1])))

SortedNoDup(L) ==
    /\ \A i \in DOMAIN L : L[i] # <<>> /\ strip(L[i]) # <<>>
    /\ \A i, j \in DOMAIN L : i < j => lower(L[i]) # lower(L[j])
    /\ \A i, j \in DOMAIN L : i < j => StrLess(L[i], L[j])

\* C6 as stated: for every raw tag list, the output read as a comma-separated
\* list has no two tags equal ignoring case, no empty or white-space-only tag,
\* and is in ascending order.
C6_Original == tpc # "start" => SortedNoDup(ReadCsv(csv))

\* C6 amended: the same, for every raw tag list whose tags hold no comma.
C6_Canonical ==
    (tpc # "start" /\ NoComma(rawTags)) => SortedNoDup(ReadCsv(csv))

\* three raw tags, two of them equal ignoring case, given out of order
C6_Witness ==
    /\ tpc = "stored"
    /\ NoComma(rawTags)
    /\ Len(rawTags) = 3
    /\ Len(ReadCsv(csv)) = 2
    /\ rawTags[1] # rawTags[2] /\ lower(rawTags[1]) = lower(rawTags[2])
    /\ StrLess(rawTags[3], lower(rawTags[1]))

-----------------------------------------------------------------------------
(* Claims about extract_text_from_pdf *)

BackendSet == {"native", "alt", "ocr"}

Rank(b) == CASE b = "native" -> 1 [] b = "alt" -> 2 [] OTHER -> 3

\* C1: extract_text_from_pdf never raises to its caller: whatever the
\* libraries do, no exception leaves it, it is never stuck before its return,
\* it returns a string, and the string is "" when every backend it attempted
\* failed or yielded nothing.
C1_NeverRaises ==
    /\ raised = FALSE
    /\ epc # "done" => ENABLED NextExtract
    /\ epc = "done" =>
        /\ \A i \in DOMAIN text : text[i] \in Nat
        /\ (\A b \in attempted : ~cand[b].out \/ cand[b].t = <<>>) => text = <<>>

\* all three backends attempted and all three failed as a whole
C1_Witness ==
    /\ epc = "done"
    /\ attempted = BackendSet
    /\ \A b \in BackendSet : ~cand[b].out
    /\ attempt.backend = "ocr" /\ attempt.fail = "import"
    /\ text = <<>>

\* C2: OCR work starts only when ENABLE_OCR enables it and the best text
\* after the native and alternate attempts is empty or shorter than 40; a
\* native text of length >= 40 triggers neither the alternate backend nor OCR;
\* with OCR disabled no OCR step is started.
C2_OcrGating ==
    /\ [](envOCR \notin {"1", "true", "TRUE"} =>
            ~ocrStarted /\ "ocr" \notin attempted)
    /\ []((cand["native"].out /\ Len(cand["native"].t) >= MinUsableLen) =>
            "alt" \notin attempted /\ "ocr" \notin attempted /\ ~ocrStarted)
    /\ [][(~ocrStarted /\ ocrStarted') =>
            (envOCR \in {"1", "true", "TRUE"} /\ Len(text) < MinUsableLen)]_vars

\* OCR rasterised a document whose alternate text is one short of the threshold
C2_Witness ==
    /\ ocrStarted
    /\ envOCR = "TRUE"
    /\ cand["alt"].out /\ Len(cand["alt"].t) = MinUsableLen - 1
    /\ text = cand["alt"].t

\* C3: the text is "" or the whole normalised output of one attempted backend;
\* no attempted backend produced a longer output; of the outputs of the
\* greatest length it is the earliest backend's (a tie keeps the earlier text).
C3_BestWhole ==
    LET produced == {b \in BackendSet : cand[b].out}
    IN  /\ produced = {} => text = <<>>
        /\ produced # {} =>
             \E b \in produced :
                /\ text = cand[b].t
                /\ \A c \in produced :
                    /\ Len(cand[c].t) <= Len(text)
                    /\ Rank(c) < Rank(b) => Len(cand[c].t) < Len(text)

\* native and alternate outputs tie in length, and a longer OCR output replaces them
C3_Witness ==
    /\ epc = "done"
    /\ \A b \in BackendSet : cand[b].out
    /\ cand["native"].t # <<>>
    /\ Len(cand["native"].t) = Len(cand["alt"].t)
    /\ Len(cand["ocr"].t) > Len(cand["native"].t)
    /\ text = cand["ocr"].t

\* the text a backend's attempt contributed: its candidate, "" when it has none
CandText(b) == IF cand[b].out THEN cand[b].t ELSE <<>>

\* C4 as stated: in every backend attempted, native, alternate and OCR, when a
\* page fails the pages that did not fail still contribute their text, in page
\* order, to that backend's candidate.
C4_PageIsolation ==
    (attempt.backend # "none" /\ attempt.fail = "none" /\ attempt.pageFailed) =>
        CandText(attempt.backend) = attempt.okText

\* what holds of the native and alternate backends
C4_NativeAndAlt ==
    (attempt.backend \in {"native", "alt"} /\ attempt.fail = "none") =>
        CandText(attempt.backend) = attempt.okText

-----------------------------------------------------------------------------
(* Claims about suggest_tags_from_text *)

NoRepeat(f) == \A i, j \in DOMAIN f : i # j => f[i] # f[j]

\* C7: the list returned has at most k elements and no tag twice, on the
\* TF-IDF path and on the Counter path; for an empty text, or one with no token
\* left by the filter, it is the empty list.
C7_AtMostK ==
    spc = "done" =>
        /\ Len(sOut) <= sK
        /\ NoRepeat(sOut)
        /\ (sText = <<>> \/ \A w \in Range(split_ws(translate_punct(lower(sText)))) :
                                ~TokenKept(w)) => sOut = <<>>

\* the TF-IDF ranking of three distinct tokens, cut to k = 2
C7_Witness ==
    /\ spc = "done"
    /\ sPath = "tfidf"
    /\ sK = 2
    /\ Len(sOut) = 2
    /\ Cardinality(Range(tokens_of(sText))) = 3

\* C8 as stated: no tag returned has length <= 2, is purely numeric or is a
\* stop word, and every tag has an alphabetic character, on either path.
C8_TagsFiltered ==
    spc = "done" =>
        \A i \in DOMAIN sOut :
            /\ Len(sOut[i]) > 2
            /\ ~isdigit(sOut[i])
            /\ sOut[i] \notin STOPWORDS
            /\ HasAlpha(sOut[i])

\* what holds of the Counter path
C8_CountPath == (spc = "done" /\ sPath = "count") => C8_TagsFiltered

\* what holds of both paths
C8_NotNumericNotStop ==
    spc = "done" =>
        \A i \in DOMAIN sOut :
            ~isdigit(sOut[i]) /\ sOut[i] \notin STOPWORDS /\ HasAlpha(sOut[i])

\* C9 as stated: when tag A comes before tag B in the list returned, A occurs
\* at least as often as B among the filtered tokens of the text.
C9_ByTokenCount ==
    spc = "done" =>
        \A i, j \in DOMAIN sOut :
            i < j => Count(tokens_of(sText), sOut[i]) >= Count(tokens_of(sText), sOut[j])

\* what holds when every filtered token is one run of word characters
C9_WordTokens ==
    (spc = "done" /\ \A w \in Range(tokens_of(sText)) : word_runs(w) = <<w>>) =>
        C9_ByTokenCount

-----------------------------------------------------------------------------
(* Claims about AppState.save_tags *)

\* the row start_edit_id opened is no longer in the table
UnderEditDeleted ==
    edit_id # NoId /\ ~\E id \in DOMAIN docs : docs[id].filepath = editPath

\* save_tags leaves the ids of the table, every row but the one whose id is
\* edit_id, and every field but tags_str as they are
SaveTouchesOneTag ==
    /\ DOMAIN docs' = DOMAIN docs
    /\ \A id \in DOMAIN docs :
        /\ id # edit_id => docs'[id] = docs[id]
        /\ docs'[id] = [docs[id] EXCEPT !.tags_str = docs'[id].tags_str]

SaveClosesEditor == edit_id # NoId => edit_id' = NoId /\ edit_tags_input' = <<>>

\* C10 as stated: in any interleaving of the handlers, save_tags changes at
\* most the tags_str of the row whose id is edit_id and neither adds nor
\* removes a row; with edit_id None, or with the document under edit deleted
\* since start_edit_id, it leaves the table as it is; and with edit_id not None
\* it ends with edit_id None and edit_tags_input "".
C10_SaveFrame ==
    [][save_tags =>
        /\ SaveTouchesOneTag
        /\ (edit_id = NoId \/ UnderEditDeleted) => docs' = docs
        /\ SaveClosesEditor]_vars

\* what holds: the table is left as it is when no row has the id edit_id
C10_SaveFrameById ==
    [][save_tags =>
        /\ SaveTouchesOneTag
        /\ (edit_id = NoId \/ edit_id \notin DOMAIN docs) => docs' = docs
        /\ SaveClosesEditor]_vars

====
